---- MODULE Spec2Model ----
(***************************************************************************)
(* Model of the universal content-extraction kernel of server_v6.js:       *)
(* UniversalWebExtractor.extractData with its four fetch strategies, the   *)
(* fallback chain, the dataCache with its TTL and the /clear-cache route.  *)
(*                                                                         *)
(* An async function runs atomically between two awaits, so every action   *)
(* below is one such segment of one extractData call: it starts where a    *)
(* promise settles and runs up to the next await or the return.            *)
(***************************************************************************)
EXTENDS Integers, Sequences, FiniteSets, TLC

VARIABLES
    dataCache,    \* the Map dataCache: cache key -> [data, timestamp]
    now,          \* Date.now()
    ticks,        \* how many times the clock has advanced
    calls,        \* per request slot: the frame of its extractData call
    nCalls,       \* extractData invocations so far
    prev,         \* history: the extractData call that returned last
    clearedKeys,  \* history: keys dropped by the last clear and not requested since
    conversationCache,  \* the Map conversationCache: conversationId -> messages
    chats,        \* per request slot: the frame of its generateResponse call
    nChats        \* generateResponse invocations so far

chatVars == <<conversationCache, chats, nChats>>

vars == <<dataCache, now, ticks, calls, nCalls, prev, clearedKeys,
          conversationCache, chats, nChats>>

(***************************************************************************)
(* Bounds of the model.                                                    *)
(***************************************************************************)
MaxCalls == 2      \* extractData invocations in one run of Spec
MaxTimedCalls == 2 \* extractData invocations in one run of SpecTime
MaxTicks == 2      \* clock advances in one run of SpecTime
MaxRacingCalls == 3 \* extractData invocations in one run of SpecRace
MaxFieldCalls == 2 \* extractData invocations in one run of SpecFields
MaxListed == 16    \* elements one sampled page offers to a list field
MaxSharedCalls == 2 \* extractData invocations in one run of SpecShared
MaxDetectCalls == 1 \* extractData invocations in one run of SpecDetect
MaxKeyCalls == 2   \* extractData invocations in one run of SpecKeys
MaxChats == 2      \* generateResponse invocations in one run of SpecChat
MaxLiveCalls == 1  \* extractData invocations in one run of SpecLive
MaxPriced == 2     \* elements one sampled page offers to the first price selector

(***************************************************************************)
(* Program constants.                                                      *)
(***************************************************************************)
CONVERSATION_TTL == 7200000
CACHE_TTL == 3600000
MAX_IMAGES == 10
MAX_VIDEOS == 5
MAX_BENEFITS == 8
MAX_TESTIMONIALS == 5
MAX_DESCRIPTION == 500
TITLE_MIN_LEN == 5
DESCRIPTION_MIN_LEN == 50
BENEFIT_MIN_LEN == 10
BENEFIT_MAX_LEN == 200
TESTIMONIAL_MIN_LEN == 20
TESTIMONIAL_MAX_LEN == 300

Slots == {1, 2}    \* requests the server may have in flight together

(***************************************************************************)
(* Strings.                                                                *)
(***************************************************************************)
StartsWith(s, t) == Len(s) >= Len(t) /\ SubSeq(s, 1, Len(t)) = t

Includes(s, t) ==
    \E i \in 1..(Len(s) - Len(t) + 1) : SubSeq(s, i, i + Len(t) - 1) = t

UpperChars == "ABCDEFGHIJKLMNOPQRSTUVWXYZ"
LowerChars == "abcdefghijklmnopqrstuvwxyz"

LowerChar(c) ==
    IF \E i \in 1..26 : SubSeq(UpperChars, i, i) = c
    THEN LET i == CHOOSE j \in 1..26 : SubSeq(UpperChars, j, j) = c
         IN  SubSeq(LowerChars, i, i)
    ELSE c

RECURSIVE ToLowerCase(_)
ToLowerCase(s) ==
    IF Len(s) = 0 THEN s
    ELSE LowerChar(SubSeq(s, 1, 1)) \o ToLowerCase(SubSeq(s, 2, Len(s)))

\* String.prototype.trim
WhiteSpace == {" ", "\t", "\n"}

RECURSIVE TrimStart(_)
TrimStart(s) ==
    IF Len(s) > 0 /\ SubSeq(s, 1, 1) \in WhiteSpace
    THEN TrimStart(SubSeq(s, 2, Len(s)))
    ELSE s

RECURSIVE TrimEnd(_)
TrimEnd(s) ==
    IF Len(s) > 0 /\ SubSeq(s, Len(s), Len(s)) \in WhiteSpace
    THEN TrimEnd(SubSeq(s, 1, Len(s) - 1))
    ELSE s

Trim(s) == TrimEnd(TrimStart(s))

\* variant: the text is kept whole
SubstringWhole(s, n) == s

\* s.substring(0, n)
Substring(s, n) == SubSeq(s, 1, IF Len(s) < n THEN Len(s) ELSE n)

\* a || b for strings, where a missing attribute reads as ""
OrElse(a, b) == IF Len(a) > 0 THEN a ELSE b

\* Array.prototype.includes
Contains(list, x) == \E i \in 1..Len(list) : list[i] = x

\* index of the first "/" of s at or after position i, Len(s) + 1 when none
RECURSIVE SlashFrom(_, _)
SlashFrom(s, i) ==
    IF i > Len(s) THEN Len(s) + 1
    ELSE IF SubSeq(s, i, i) = "/" THEN i
    ELSE SlashFrom(s, i + 1)

(***************************************************************************)
(* new URL(url): the sampled URLs are absolute http(s) URLs or strings     *)
(* with no scheme, which the URL constructor rejects with a TypeError.     *)
(***************************************************************************)
SchemeLen(url) ==
    IF StartsWith(url, "http://") THEN 7
    ELSE IF StartsWith(url, "https://") THEN 8
    ELSE 0

IsValidURL(url) == SchemeLen(url) > 0 /\ Len(url) > SchemeLen(url)

\* index of the first character of s at or after position i that ends a host
\* name (the port, the path, the query or the fragment follows), Len(s) + 1
\* when none
RECURSIVE HostEnd(_, _)
HostEnd(s, i) ==
    IF i > Len(s) THEN Len(s) + 1
    ELSE IF SubSeq(s, i, i) \in {":", "/", "?", "#"} THEN i
    ELSE HostEnd(s, i + 1)

Hostname(url) ==
    SubSeq(url, SchemeLen(url) + 1, HostEnd(url, SchemeLen(url) + 1) - 1)

Origin(url) == SubSeq(url, 1, SlashFrom(url, SchemeLen(url) + 1) - 1)

(***************************************************************************)
(* detectBestMethod                                                        *)
(***************************************************************************)
jsHeavySites ==
    <<"facebook.com", "instagram.com", "linkedin.com", "twitter.com", "x.com",
      "tiktok.com", "youtube.com", "pinterest.com", "snapchat.com">>

cloudflareSites ==
    <<"shopify.com", "wordpress.com", "wix.com", "squarespace.com">>

botBlockingSites ==
    <<"amazon.com", "ebay.com", "mercadolivre.com", "aliexpress.com",
      "booking.com", "airbnb.com">>

SomeIncluded(sites, domain) ==
    \E i \in 1..Len(sites) : Includes(domain, sites[i])

\* variant: the tables are matched against the whole url
DetectOnWholeUrl(url) ==
    LET domain == ToLowerCase(url)
    IN  IF SomeIncluded(jsHeavySites, domain) THEN "playwright"
        ELSE IF SomeIncluded(cloudflareSites, domain) THEN "cloudscraper"
        ELSE IF SomeIncluded(botBlockingSites, domain) THEN "puppeteer"
        ELSE "axios"

\* the value detectBestMethod(url) resolves to, for a URL that parses
detectBestMethod(url) ==
    LET domain == ToLowerCase(Hostname(url))
    IN  IF SomeIncluded(jsHeavySites, domain) THEN "playwright"
        ELSE IF SomeIncluded(cloudflareSites, domain) THEN "cloudscraper"
        ELSE IF SomeIncluded(botBlockingSites, domain) THEN "puppeteer"
        ELSE "axios"

\* new URL(url) throws inside detectBestMethod: the returned promise rejects
detectThrows(url) == ~IsValidURL(url)

(***************************************************************************)
(* Fetched documents.  A document is what a strategy hands back as html,   *)
(* described by what the selectors of processExtractedHTML find in it:     *)
(*   isString      FALSE for a body axios has already parsed (a JSON       *)
(*                 response gives response.data as an object)              *)
(*   titles, descs for each selector of titleSelectors / descSelectors in  *)
(*                 order, the first element it matches: found is           *)
(*                 element.length > 0, content its content attribute ("" *)
(*                 when it has none), text its text()                      *)
(*   benefits, testimonials   for each selector in order, the text() of    *)
(*                 the elements it matches, in document order              *)
(*   prices        for each of the two price selectors, the text() of the  *)
(*                 elements it matches, in document order                  *)
(*   imgs          the src attribute of the <img> elements                 *)
(*   videos        for each video or player iframe, its src attribute and  *)
(*                 the src of its first <source> child                     *)
(***************************************************************************)
NotFound == [found |-> FALSE, content |-> "", text |-> ""]
TextOf(t) == [found |-> TRUE, content |-> "", text |-> t]
MetaOf(t) == [found |-> TRUE, content |-> t, text |-> ""]

\* a page in which no selector finds anything
BaseDoc ==
    [isString |-> TRUE,
     titles |-> <<NotFound, NotFound, NotFound, NotFound, NotFound, NotFound>>,
     descs |-> <<NotFound, NotFound, NotFound, NotFound, NotFound, NotFound>>,
     benefits |-> <<<<>>, <<>>, <<>>>>,
     testimonials |-> <<<<>>, <<>>>>,
     prices |-> <<<<>>, <<>>>>,
     imgs |-> <<>>,
     videos |-> <<>>]

HtmlLanding ==
    [BaseDoc EXCEPT
        !.imgs = <<"/img/hero.png", "data:image/png;base64,iVBOR", "http://cdn.io/b.jpg">>]

HtmlBadImg == [BaseDoc EXCEPT !.imgs = <<"//[">>]

JsonBody == [BaseDoc EXCEPT !.isString = FALSE]

\* new URL(src, base) throws for a reference whose host does not parse
ResolveThrows(src, base) == StartsWith(src, "//[") \/ ~IsValidURL(base)

\* new URL(src, base).href for an absolute-path or a relative reference
Resolve(src, base) ==
    IF StartsWith(src, "/") THEN Origin(base) \o src
    ELSE Origin(base) \o "/" \o src

\* variant: a title of exactly TITLE_MIN_LEN characters is accepted
RECURSIVE ExtractTitleLenient(_, _)
ExtractTitleLenient(titles, i) ==
    IF i > Len(titles) THEN ""
    ELSE LET element == titles[i]
             title == OrElse(element.content, element.text)
         IN  IF /\ element.found
                /\ Len(title) > 0
                /\ Len(Trim(title)) >= TITLE_MIN_LEN
                /\ ~Includes(ToLowerCase(title), "error")
             THEN Trim(title)
             ELSE ExtractTitleLenient(titles, i + 1)

\* the loop over titleSelectors, from selector i on
RECURSIVE ExtractTitle(_, _)
ExtractTitle(titles, i) ==
    IF i > Len(titles) THEN ""
    ELSE LET element == titles[i]
             title == OrElse(element.content, element.text)
         IN  IF /\ element.found
                /\ Len(title) > 0
                /\ Len(Trim(title)) > TITLE_MIN_LEN
                /\ ~Includes(ToLowerCase(title), "error")
             THEN Trim(title)
             ELSE ExtractTitle(titles, i + 1)

\* the loop over descSelectors, from selector i on
RECURSIVE ExtractDescription(_, _)
ExtractDescription(descs, i) ==
    IF i > Len(descs) THEN ""
    ELSE LET element == descs[i]
             description == OrElse(element.content, element.text)
         IN  IF /\ element.found
                /\ Len(description) > 0
                /\ Len(Trim(description)) > DESCRIPTION_MIN_LEN
             THEN Substring(Trim(description), MAX_DESCRIPTION)
             ELSE ExtractDescription(descs, i + 1)

(***************************************************************************)
(* text.match(/R\$\s*\d{1,3}(?:[.,]\d{3})*(?:[.,]\d{2})?                     *)
(*             |USD\s*\d+[.,]?\d*|\$\s*\d+[.,]?\d*/): the match the regular  *)
(* expression engine reports is the one at the leftmost position where an  *)
(* alternative matches, of the first alternative that matches there, every *)
(* quantifier taking as much as it can (what follows a quantifier is       *)
(* optional in all three alternatives, so nothing is ever given back).     *)
(* A matcher returns the position after the match, 0 when it fails.        *)
(***************************************************************************)
Digits == {"0", "1", "2", "3", "4", "5", "6", "7", "8", "9"}
Separators == {".", ","}

IsAt(s, i, set) == i <= Len(s) /\ SubSeq(s, i, i) \in set

\* the position after the longest run of characters of set from position i
RECURSIVE SkipWhile(_, _, _)
SkipWhile(s, i, set) == IF IsAt(s, i, set) THEN SkipWhile(s, i + 1, set) ELSE i

\* (?:[.,]\d{3})* from position i
RECURSIVE Thousands(_, _)
Thousands(s, i) ==
    IF /\ IsAt(s, i, Separators)
       /\ IsAt(s, i + 1, Digits) /\ IsAt(s, i + 2, Digits) /\ IsAt(s, i + 3, Digits)
    THEN Thousands(s, i + 4)
    ELSE i

\* (?:[.,]\d{2})? from position i
Cents(s, i) ==
    IF IsAt(s, i, Separators) /\ IsAt(s, i + 1, Digits) /\ IsAt(s, i + 2, Digits)
    THEN i + 3
    ELSE i

\* R\$\s*\d{1,3}(?:[.,]\d{3})*(?:[.,]\d{2})? at position i
MatchReais(s, i) ==
    LET d == SkipWhile(s, i + 2, WhiteSpace)
        run == SkipWhile(s, d, Digits)
        e == IF run > d + 3 THEN d + 3 ELSE run
    IN  IF i + 1 <= Len(s) /\ SubSeq(s, i, i + 1) = "R$" /\ e > d
        THEN Cents(s, Thousands(s, e))
        ELSE 0

\* \s*\d+[.,]?\d* from position i, after the currency sign
MatchAmount(s, i) ==
    LET d == SkipWhile(s, i, WhiteSpace)
        e == SkipWhile(s, d, Digits)
    IN  IF e > d
        THEN SkipWhile(s, IF IsAt(s, e, Separators) THEN e + 1 ELSE e, Digits)
        ELSE 0

\* USD\s*\d+[.,]?\d* at position i
MatchUSD(s, i) ==
    IF i + 2 <= Len(s) /\ SubSeq(s, i, i + 2) = "USD" THEN MatchAmount(s, i + 3) ELSE 0

\* \$\s*\d+[.,]?\d* at position i
MatchDollar(s, i) ==
    IF IsAt(s, i, {"$"}) THEN MatchAmount(s, i + 1) ELSE 0

\* the three alternatives, in order, at position i
MatchAt(s, i) ==
    IF MatchReais(s, i) > 0 THEN MatchReais(s, i)
    ELSE IF MatchUSD(s, i) > 0 THEN MatchUSD(s, i)
    ELSE MatchDollar(s, i)

\* priceMatch: null, or priceMatch[0]
RECURSIVE PriceMatchFrom(_, _)
PriceMatchFrom(s, i) ==
    IF i > Len(s) THEN [found |-> FALSE, text |-> ""]
    ELSE IF MatchAt(s, i) > 0
         THEN [found |-> TRUE, text |-> SubSeq(s, i, MatchAt(s, i) - 1)]
         ELSE PriceMatchFrom(s, i + 1)

PriceMatch(s) == PriceMatchFrom(s, 1)

\* variant: the price is the text of the element that holds the match
RECURSIVE EachPriceWholeText(_, _)
EachPriceWholeText(texts, price) ==
    IF texts = <<>> THEN price
    ELSE LET text == Trim(Head(texts))
         IN  IF PriceMatch(text).found /\ price = ""
             THEN text
             ELSE EachPriceWholeText(Tail(texts), price)

\* $(selector).each(...) of the price loop: price is extractedData.price so
\* far, and the callback returns false (ends the each) when it stores a match
RECURSIVE EachPrice(_, _)
EachPrice(texts, price) ==
    IF texts = <<>> THEN price
    ELSE LET text == Trim(Head(texts))
             priceMatch == PriceMatch(text)
         IN  IF priceMatch.found /\ price = ""
             THEN priceMatch.text
             ELSE EachPrice(Tail(texts), price)

\* the loop over priceSelectors, from selector i on
RECURSIVE ExtractPrice(_, _, _)
ExtractPrice(prices, i, price) ==
    IF i > Len(prices) THEN price
    ELSE LET found == EachPrice(prices[i], price)
         IN  IF found # "" THEN found ELSE ExtractPrice(prices, i + 1, found)

\* variant: the list is filled without looking at its length
PushTextUncapped(acc, raw, minLen, maxLen, cap) ==
    LET text == Trim(raw)
    IN  IF Len(text) > minLen /\ Len(text) < maxLen /\ ~Contains(acc, text)
        THEN Append(acc, text)
        ELSE acc

\* variant: the ends of the length band are accepted
PushTextInclusive(acc, raw, minLen, maxLen, cap) ==
    LET text == Trim(raw)
    IN  IF /\ Len(text) > 0
           /\ Len(text) >= minLen
           /\ Len(text) <= maxLen
           /\ Len(acc) < cap
           /\ ~Contains(acc, text)
        THEN Append(acc, text)
        ELSE acc

\* the body of the $(selector).each(...) callbacks of benefits and testimonials
PushText(acc, raw, minLen, maxLen, cap) ==
    LET text == Trim(raw)
    IN  IF /\ Len(text) > 0
           /\ Len(text) > minLen
           /\ Len(text) < maxLen
           /\ Len(acc) < cap
           /\ ~Contains(acc, text)
        THEN Append(acc, text)
        ELSE acc

\* $(selector).each(...) over the elements one selector matches
RECURSIVE CollectTexts(_, _, _, _, _)
CollectTexts(texts, acc, minLen, maxLen, cap) ==
    IF texts = <<>> THEN acc
    ELSE CollectTexts(Tail(texts), PushText(acc, Head(texts), minLen, maxLen, cap),
                      minLen, maxLen, cap)

\* the loop over benefitSelectors or testimonialSelectors, from selector i on
RECURSIVE CollectLists(_, _, _, _, _, _)
CollectLists(lists, i, acc, minLen, maxLen, cap) ==
    IF i > Len(lists) THEN acc
    ELSE LET filled == CollectTexts(lists[i], acc, minLen, maxLen, cap)
         IN  IF Len(filled) >= cap THEN filled
             ELSE CollectLists(lists, i + 1, filled, minLen, maxLen, cap)

\* the $('img').each(...) loop: acc is extractedData.images so far
RECURSIVE ExtractImages(_, _, _)
ExtractImages(imgs, finalUrl, acc) ==
    IF imgs = <<>> THEN [threw |-> FALSE, images |-> acc]
    ELSE LET src == Head(imgs)
         IN  IF Len(src) > 0 /\ ~Includes(src, "data:") /\ Len(acc) < MAX_IMAGES
             THEN IF StartsWith(src, "http")
                  THEN ExtractImages(Tail(imgs), finalUrl, Append(acc, src))
                  ELSE IF ResolveThrows(src, finalUrl)
                       THEN [threw |-> TRUE, images |-> acc]
                       ELSE ExtractImages(Tail(imgs), finalUrl,
                                          Append(acc, Resolve(src, finalUrl)))
             ELSE ExtractImages(Tail(imgs), finalUrl, acc)

\* the $('video, iframe...').each(...) loop: acc is extractedData.videos so far
RECURSIVE ExtractVideos(_, _)
ExtractVideos(videos, acc) ==
    IF videos = <<>> THEN acc
    ELSE LET src == OrElse(Head(videos).src, Head(videos).source)
         IN  IF Len(src) > 0 /\ Len(acc) < MAX_VIDEOS
             THEN ExtractVideos(Tail(videos), Append(acc, src))
             ELSE ExtractVideos(Tail(videos), acc)

(***************************************************************************)
(* processExtractedHTML(html, finalUrl): the record, or threw when an      *)
(* exception leaves it (html.match on a body that is no string, new URL on *)
(* an image reference that does not parse).                                *)
(***************************************************************************)
processExtractedHTML(html, finalUrl) ==
    LET im == ExtractImages(html.imgs, finalUrl, <<>>)
    IN  IF ~html.isString \/ im.threw
        THEN [threw |-> TRUE]
        ELSE [threw |-> FALSE,
              data |-> [url |-> finalUrl,
                        title |-> ExtractTitle(html.titles, 1),
                        description |-> ExtractDescription(html.descs, 1),
                        price |-> ExtractPrice(html.prices, 1, ""),
                        benefits |-> CollectLists(html.benefits, 1, <<>>,
                                                  BENEFIT_MIN_LEN, BENEFIT_MAX_LEN,
                                                  MAX_BENEFITS),
                        testimonials |-> CollectLists(html.testimonials, 1, <<>>,
                                                      TESTIMONIAL_MIN_LEN,
                                                      TESTIMONIAL_MAX_LEN,
                                                      MAX_TESTIMONIALS),
                        images |-> im.images,
                        videos |-> ExtractVideos(html.videos, <<>>),
                        extractionMethod |-> ""]]

(***************************************************************************)
(* getDefaultData(url)                                                     *)
(***************************************************************************)
getDefaultData(url) ==
    [url |-> url,
     title |-> "Produto Incrivel - Transforme Sua Vida Hoje!",
     description |-> "Descubra este produto revolucionario que vai transformar completamente sua vida! Milhares de pessoas ja alcancaram resultados extraordinarios.",
     price |-> "Oferta especial - Consulte o preco na pagina",
     benefits |-> <<"Resultados comprovados em tempo recorde",
                    "Suporte especializado 24/7",
                    "Garantia total de satisfacao",
                    "Metodo exclusivo e inovador",
                    "Transformacao completa garantida">>,
     testimonials |-> <<"Produto excelente, mudou minha vida completamente!",
                        "Recomendo para todos, resultados incriveis!",
                        "Funcionou perfeitamente, superou minhas expectativas!">>,
     cta |-> "QUERO TRANSFORMAR MINHA VIDA AGORA!",
     images |-> <<>>,
     videos |-> <<>>,
     extractionMethod |-> "fallback"]

(***************************************************************************)
(* The frame of one extractData call.                                      *)
(*   id        history: the number of the call, in the order calls began   *)
(*   pc        idle, detect (await detectBestMethod), http (await of the   *)
(*             axios or cloudscraper request), launch, page, close (the    *)
(*             awaits of a browser strategy), done                         *)
(*   url, reqMethod   the arguments; method is the local that auto         *)
(*             detection and a successful fallback reassign                *)
(*   fb        0 during the primary attempt, else the index in             *)
(*             fallbackMethods of the attempt under way                    *)
(*   strategy, step, browser, pending   the strategy invocation under way: *)
(*             its name, the await of its page sequence it is at, its      *)
(*             local browser, and the result its try or catch block has    *)
(*             returned while the finally block runs                       *)
(*   launched, closeCalls   history: browsers the call has launched, and   *)
(*             browsers it has invoked close() on                          *)
(*   attempts  history: the strategies invoked, each with how it ended     *)
(*   fetched   history: the extractionResult handed to the field extractor *)
(*   ret, raised, hit   how the call ended                                 *)
(*   entryAge, after, postClear   history taken when the call began        *)
(*   overtaken history: the cache was cleared while the strategy under way *)
(*             was suspended                                               *)
(***************************************************************************)
NoData == [extractionMethod |-> "none"]
NoResult == [success |-> FALSE, error |-> "none"]
NoPrev == [url |-> "", reqMethod |-> "", kind |-> "none", start |-> 0, fetches |-> 0]

IdleCall ==
    [pc |-> "idle", id |-> 0, url |-> "", reqMethod |-> "", method |-> "", cacheKey |-> "",
     fb |-> 0, strategy |-> "", step |-> 0, browser |-> "null", pending |-> NoResult,
     launched |-> 0, closeCalls |-> 0,
     attempts |-> <<>>, fetched |-> NoResult, ret |-> NoData, raised |-> FALSE, hit |-> FALSE,
     start |-> 0, entryAge |-> -1, after |-> NoPrev, postClear |-> FALSE,
     overtaken |-> FALSE]

BrowserStrategies == {"puppeteer", "playwright"}

\* the awaits between launch and the return statement of the try block
PuppeteerSteps ==
    <<"newPage", "setUserAgent", "setViewport", "setRequestInterception",
      "goto", "waitForTimeout", "content">>
PlaywrightSteps ==
    <<"newContext", "newPage", "route", "goto", "waitForTimeout", "content">>

PageSteps(strategy) ==
    IF strategy = "puppeteer" THEN PuppeteerSteps ELSE PlaywrightSteps

\* variant: the key is the url alone
CacheKeyUrlOnly(url, method) == url

\* the template literal `${url}_${method}`
cacheKeyOf(url, method) == url \o "_" \o method

\* variant: an entry as old as the TTL still counts as fresh
IsFreshInclusive(entry, t) == t - entry.timestamp <= CACHE_TTL

\* Date.now() - cached.timestamp < CACHE_TTL
IsFresh(entry, t) == t - entry.timestamp < CACHE_TTL

\* variant: the comparison of the lookup is inverted
CacheHitWhenStale(cache, key, t) == key \in DOMAIN cache /\ ~IsFresh(cache[key], t)

\* const cached = dataCache.get(cacheKey); if (cached && fresh)
CacheHit(cache, key, t) == key \in DOMAIN cache /\ IsFresh(cache[key], t)

\* the strategy a switch (method) statement of extractData dispatches to
SwitchStrategy(method) ==
    IF method \in {"cloudscraper", "puppeteer", "playwright"} THEN method ELSE "axios"

StrategyOrder == <<"axios", "cloudscraper", "puppeteer", "playwright">>

fallbackMethods(method) == SelectSeq(StrategyOrder, LAMBDA m : m # method)

\* the call of this.extractWith...(url), up to the first await of the strategy
StartStrategy(cr, strategy) ==
    [cr EXCEPT !.strategy = strategy,
               !.pc = IF strategy \in BrowserStrategies THEN "launch" ELSE "http",
               !.step = 0,
               !.browser = "null",
               !.pending = NoResult,
               !.overtaken = FALSE,
               !.attempts = Append(@, [s |-> strategy, r |-> "pending"])]

\* history: the attempt under way ended as r (ok, fail or threw)
EndAttempt(cr, r) ==
    [cr EXCEPT !.attempts[Len(cr.attempts)].r = r]

Return(cr, data) == [cr EXCEPT !.pc = "done", !.ret = data, !.overtaken = FALSE]

\* variant: the handler lets the exception leave extractData
CatchBlockRethrows(cr, cache) ==
    [call |-> [cr EXCEPT !.pc = "done", !.raised = TRUE], cache |-> cache]

\* variant: the handler also saves the default record under the requested key
CatchBlockCachesDefault(cr, cache) ==
    [call |-> Return(cr, getDefaultData(cr.url)),
     cache |-> (cr.cacheKey :> [data |-> getDefaultData(cr.url),
                                timestamp |-> cr.start,
                                by |-> [url |-> cr.url, reqMethod |-> cr.reqMethod,
                                         overtaken |-> cr.overtaken,
                                        finalUrl |-> cr.url]]) @@ cache]

\* variant: the handler answers with the empty record of the field extractor
CatchBlockEmptyRecord(cr, cache) ==
    [call |-> Return(cr, [url |-> cr.url, benefits |-> <<>>, testimonials |-> <<>>,
                          images |-> <<>>, videos |-> <<>>,
                          extractionMethod |-> "fallback"]),
     cache |-> cache]

\* the catch block of extractData
CatchBlock(cr, cache) ==
    [call |-> Return(cr, getDefaultData(cr.url)), cache |-> cache]

\* variant: the record is saved under the key of the strategy that fetched it
SaveKeyResolved(cr) == cacheKeyOf(cr.url, cr.method)

\* the key of the dataCache.set(cacheKey, ...) that saves the record
SaveKey(cr) == cr.cacheKey

\* the start of the try block of extractData, up to its first await
EnterCall(url, method, cache, t, fresh) ==
    LET key == cacheKeyOf(url, method)
        cr == [fresh EXCEPT !.url = url, !.reqMethod = method, !.method = method,
                            !.cacheKey = key, !.start = t,
                            !.entryAge = IF key \in DOMAIN cache
                                         THEN t - cache[key].timestamp ELSE -1]
    IN  IF CacheHit(cache, key, t)
        THEN [Return(cr, cache[key].data) EXCEPT !.hit = TRUE]
        ELSE IF method = "auto"
        THEN [cr EXCEPT !.pc = "detect"]
        ELSE StartStrategy(cr, SwitchStrategy(method))

\* variant: the entry is stamped with the time it expires
ExpiresAt(t) == t + CACHE_TTL

\* timestamp: Date.now() of the entry saved at time t
CapturedAt(t) == t

\* extractData from "Processar HTML extraido" to its return; by is history:
\* the call that saved the entry and the final URL of its fetch
ProcessAndSave(cr0, result, cache, t) ==
    LET cr == [cr0 EXCEPT !.fetched = result]
        p == processExtractedHTML(result.html, result.finalUrl)
    IN  IF p.threw
        THEN CatchBlock(cr, cache)
        ELSE LET processedData == [p.data EXCEPT !.extractionMethod = cr.method]
             IN  [call |-> Return(cr, processedData),
                  cache |-> (SaveKey(cr) :>
                                [data |-> processedData,
                                 timestamp |-> CapturedAt(t),
                                 by |-> [url |-> cr.url, reqMethod |-> cr.reqMethod,
                                         overtaken |-> cr.overtaken,
                                         finalUrl |-> result.finalUrl]])
                            @@ cache]

\* variant: the fallback loop has no break and goes on after a success
ResumeNoBreak(cr0, threw, result, cache, t) ==
    LET cr == EndAttempt(cr0, IF threw THEN "threw"
                              ELSE IF result.success THEN "ok" ELSE "fail")
        fm == fallbackMethods(cr.method)
    IN  IF threw
        THEN CatchBlock(cr, cache)
        ELSE IF cr.fb < Len(fm) /\ (cr.fb > 0 \/ ~result.success)
        THEN [call |-> StartStrategy([cr EXCEPT !.fb = @ + 1],
                                     SwitchStrategy(fm[cr.fb + 1])),
              cache |-> cache]
        ELSE IF result.success
        THEN ProcessAndSave(IF cr.fb > 0 THEN [cr EXCEPT !.method = fm[cr.fb]] ELSE cr,
                            result, cache, t)
        ELSE CatchBlock(cr, cache)

\* extractData resumed by the strategy it awaited: the strategy returned result,
\* or (threw) an exception left it
\* variant: when the list is exhausted the call starts over with its primary
\* strategy
ResumeStartsOver(cr0, threw, result, cache, t) ==
    LET cr == EndAttempt(cr0, IF threw THEN "threw"
                              ELSE IF result.success THEN "ok" ELSE "fail")
        fm == fallbackMethods(cr.method)
    IN  IF threw
        THEN CatchBlock(cr, cache)
        ELSE IF result.success
        THEN ProcessAndSave(IF cr.fb > 0 THEN [cr EXCEPT !.method = fm[cr.fb]] ELSE cr,
                            result, cache, t)
        ELSE IF cr.fb < Len(fm)
        THEN [call |-> StartStrategy([cr EXCEPT !.fb = @ + 1],
                                     SwitchStrategy(fm[cr.fb + 1])),
              cache |-> cache]
        ELSE [call |-> StartStrategy([cr EXCEPT !.fb = 0, !.attempts = <<>>,
                                                !.launched = 0, !.closeCalls = 0],
                                     SwitchStrategy(cr.method)),
              cache |-> cache]

Resume(cr0, threw, result, cache, t) ==
    LET cr == EndAttempt(cr0, IF threw THEN "threw"
                              ELSE IF result.success THEN "ok" ELSE "fail")
        fm == fallbackMethods(cr.method)
    IN  IF threw
        THEN CatchBlock(cr, cache)
        ELSE IF result.success
        THEN ProcessAndSave(IF cr.fb > 0 THEN [cr EXCEPT !.method = fm[cr.fb]] ELSE cr,
                            result, cache, t)
        ELSE IF cr.fb < Len(fm)
        THEN [call |-> StartStrategy([cr EXCEPT !.fb = @ + 1],
                                     SwitchStrategy(fm[cr.fb + 1])),
              cache |-> cache]
        ELSE CatchBlock(cr, cache)

(***************************************************************************)
(* The fetch strategies: what each try, catch and finally block does.      *)
(* resp is what the awaited library call produced: resp.ok is FALSE when   *)
(* its promise rejected (network error, timeout, status outside 2xx/3xx).  *)
(***************************************************************************)
Failure == [success |-> FALSE, error |-> "error.message"]

\* extractWithAxios: responseUrl is "" when response.request.res has none
extractWithAxios(url, resp) ==
    IF resp.ok
    THEN [success |-> TRUE, html |-> resp.html,
          finalUrl |-> IF resp.responseUrl # "" THEN resp.responseUrl ELSE url]
    ELSE Failure

extractWithCloudscraper(url, resp) ==
    IF resp.ok
    THEN [success |-> TRUE, html |-> resp.html, finalUrl |-> url]
    ELSE Failure

\* variant: close() at the end of the try block instead of in a finally block
ClosesBrowserOnSuccess(cr) == cr.browser # "null" /\ cr.pending.success

\* the finally block of a browser strategy: if (browser) await browser.close()
ClosesBrowser(cr) == cr.browser # "null"

\* a browser strategy leaving its try or catch block with result
LeaveTry(cr, result) ==
    LET held == [cr EXCEPT !.pending = result]
    IN  IF ClosesBrowser(held)
        THEN [held EXCEPT !.pc = "close", !.closeCalls = @ + 1]
        ELSE held

\* history: the summary of a call that has returned
Summary(cr) ==
    [url |-> cr.url, reqMethod |-> cr.reqMethod,
     kind |-> IF cr.hit THEN "hit"
              ELSE IF cr.ret.extractionMethod = "fallback" THEN "fallback"
              ELSE "fetched",
     start |-> cr.start, fetches |-> Len(cr.attempts)]

EmptyCache == <<>>

(***************************************************************************)
(* Initial state: the module has just been loaded.                         *)
(***************************************************************************)
\* a slot with no generateResponse call
IdleChat ==
    [pc |-> "idle", id |-> 0, conversationId |-> "", message |-> "", intent |-> "",
     conversation |-> <<>>, now |-> 0]

Init ==
    /\ conversationCache = EmptyCache
    /\ chats = [c \in Slots |-> IdleChat]
    /\ nChats = 0
    /\ dataCache = EmptyCache
    /\ now = 0
    /\ ticks = 0
    /\ calls = [c \in Slots |-> IdleCall]
    /\ nCalls = 0
    /\ prev = NoPrev
    /\ clearedKeys = {}

\* slot c moves to frame cr and the cache to cache
Move(c, cr, cache) ==
    /\ calls' = [calls EXCEPT ![c] = cr]
    /\ dataCache' = cache
    /\ prev' = IF cr.pc = "done" THEN Summary(cr) ELSE prev
    /\ UNCHANGED <<now, ticks>>
    /\ UNCHANGED chatVars

Settle(c, out) ==
    /\ Move(c, out.call, out.cache)
    /\ UNCHANGED <<nCalls, clearedKeys>>

(***************************************************************************)
(* Actions.                                                                *)
(***************************************************************************)
\* a route handler calls webExtractor.extractData(url, method)
Begin(c, url, method) ==
    /\ calls[c].pc \in {"idle", "done"}
    /\ LET succ == prev.kind # "none" /\ prev.url = url /\ prev.reqMethod = method
                   /\ now - prev.start < CACHE_TTL
           fresh == [IdleCall EXCEPT
                        !.id = nCalls + 1,
                        !.after = IF succ THEN prev ELSE NoPrev,
                        !.postClear = cacheKeyOf(url, method) \in clearedKeys]
       IN  Move(c, EnterCall(url, method, dataCache, now, fresh), dataCache)
    /\ nCalls' = nCalls + 1
    /\ clearedKeys' = clearedKeys \ {cacheKeyOf(url, method)}

\* method = await this.detectBestMethod(url), then the first switch
Detect(c) ==
    /\ calls[c].pc = "detect"
    /\ LET cr == calls[c]
           m == detectBestMethod(cr.url)
       IN  IF detectThrows(cr.url)
           THEN Settle(c, CatchBlock(cr, dataCache))
           ELSE Settle(c, [call |-> StartStrategy([cr EXCEPT !.method = m],
                                                  SwitchStrategy(m)),
                           cache |-> dataCache])

\* the request of extractWithAxios or extractWithCloudscraper settles
HttpSettle(c, resp) ==
    /\ calls[c].pc = "http"
    /\ LET cr == calls[c]
           result == IF cr.strategy = "axios"
                     THEN extractWithAxios(cr.url, resp)
                     ELSE extractWithCloudscraper(cr.url, resp)
       IN  Settle(c, Resume(cr, FALSE, result, dataCache, now))

\* puppeteer.launch / chromium.launch settles
BrowserLaunch(c, ok) ==
    /\ calls[c].pc = "launch"
    /\ LET cr == calls[c]
           left == LeaveTry(cr, Failure)
       IN  IF ok
           THEN Settle(c, [call |-> [cr EXCEPT !.browser = "open", !.pc = "page",
                                               !.step = 1, !.launched = @ + 1],
                           cache |-> dataCache])
           ELSE IF left.pc = "close"
           THEN Settle(c, [call |-> left, cache |-> dataCache])
           ELSE Settle(c, Resume(left, FALSE, left.pending, dataCache, now))

\* the await of the page sequence the strategy is at settles; after the last
\* one (page.content()) the try block returns the markup and page.url()
BrowserStep(c, resp) ==
    /\ calls[c].pc = "page"
    /\ LET cr == calls[c]
           last == cr.step = Len(PageSteps(cr.strategy))
           left == LeaveTry(cr, IF resp.ok
                                THEN [success |-> TRUE, html |-> resp.html,
                                      finalUrl |-> IF resp.responseUrl # ""
                                                   THEN resp.responseUrl ELSE cr.url]
                                ELSE Failure)
       IN  IF resp.ok /\ ~last
           THEN Settle(c, [call |-> [cr EXCEPT !.step = @ + 1], cache |-> dataCache])
           ELSE IF left.pc = "close"
           THEN Settle(c, [call |-> left, cache |-> dataCache])
           ELSE Settle(c, Resume(left, FALSE, left.pending, dataCache, now))

\* await browser.close() in the finally block settles
BrowserClose(c, ok) ==
    /\ calls[c].pc = "close"
    /\ LET cr == calls[c]
       IN  IF ok
           THEN Settle(c, Resume([cr EXCEPT !.browser = "closed"], FALSE, cr.pending,
                                 dataCache, now))
           ELSE Settle(c, Resume([cr EXCEPT !.browser = "closeFailed"], TRUE,
                                 cr.pending, dataCache, now))

\* POST /clear-cache
ClearCache ==
    /\ dataCache # EmptyCache \/ conversationCache # EmptyCache
    /\ dataCache' = EmptyCache
    /\ conversationCache' = EmptyCache
    /\ UNCHANGED <<chats, nChats>>
    /\ clearedKeys' = clearedKeys \cup DOMAIN dataCache
    /\ prev' = NoPrev
    /\ calls' = [c \in Slots |->
                    IF calls[c].pc \in {"http", "launch", "page", "close"}
                    THEN [calls[c] EXCEPT !.overtaken = TRUE]
                    ELSE calls[c]]
    /\ UNCHANGED <<now, ticks, nCalls>>

\* time passes
Tick(d) ==
    /\ ticks < MaxTicks
    /\ now' = now + d
    /\ ticks' = ticks + 1
    /\ UNCHANGED <<dataCache, calls, nCalls, prev, clearedKeys>>
    /\ UNCHANGED chatVars

(***************************************************************************)
(* What the environment offers.                                            *)
(***************************************************************************)
\* (url, method) pairs: detection to axios and to puppeteer, a URL that does
\* not parse, named strategies (one of them the strategy detection resolves
\* to for the same url), and methods that name no strategy
Requests ==
    {[url |-> "http://loja.io/p", method |-> "auto"],
     [url |-> "http://www.amazon.com/dp", method |-> "auto"],
     [url |-> "http://loja.io/p", method |-> "axios"],
     [url |-> "loja.io", method |-> "auto"],
     [url |-> "http://loja.io/p", method |-> "cloudscraper"],
     [url |-> "http://loja.io/p", method |-> "playwright"],
     [url |-> "http://loja.io/p", method |-> "curl"],
     [url |-> "http://loja.io/p", method |-> "fallback"]}

RedirectUrl == "http://loja.io/r"

Rejected == [ok |-> FALSE, html |-> JsonBody, responseUrl |-> ""]
HttpResponses ==
    {Rejected,
     [ok |-> TRUE, html |-> HtmlLanding, responseUrl |-> ""],
     [ok |-> TRUE, html |-> HtmlLanding, responseUrl |-> RedirectUrl],
     [ok |-> TRUE, html |-> HtmlBadImg, responseUrl |-> ""],
     [ok |-> TRUE, html |-> JsonBody, responseUrl |-> ""]}
PageResponses ==
    {Rejected,
     [ok |-> TRUE, html |-> HtmlLanding, responseUrl |-> ""],
     [ok |-> TRUE, html |-> HtmlBadImg, responseUrl |-> RedirectUrl]}

(***************************************************************************)
(* Sampled pages for the field extractor: each family varies what the      *)
(* selectors of one field find and leaves the rest of the page empty.      *)
(***************************************************************************)
Letter(k) == SubSeq(UpperChars, ((k - 1) % 26) + 1, ((k - 1) % 26) + 1)

RECURSIVE Repeat(_, _)
Repeat(s, n) == IF n = 0 THEN "" ELSE s \o Repeat(s, n - 1)

\* a text of n characters with no white space
Filler(n) == SubSeq(Repeat("abcdefghij", (n \div 10) + 1), 1, n)

\* a text of n characters that starts with the k-th letter
Lettered(k, n) == Letter(k) \o Filler(n - 1)

\* per title selector: nothing found, a candidate the loop rejects (too short,
\* exactly TITLE_MIN_LEN characters once trimmed, naming an error, empty,
\* blank), or a candidate it accepts
TitleRejected ==
    <<TextOf("Home"), TextOf("  Loja5  "), TextOf("Server ERROR 500"),
      MetaOf(""), MetaOf("Internal error"), TextOf("   ")>>
TitleAccepted ==
    <<TextOf("\n  Curso Completo de Vendas  \n"), TextOf("Titulo"),
      [found |-> TRUE, content |-> "Conteudo do atributo", text |-> "Texto do elemento"],
      MetaOf("Acme Pro"), MetaOf("Acme no Twitter"), TextOf("Pagina da Loja")>>

\* per description selector: nothing found, a candidate the loop rejects
\* (DESCRIPTION_MIN_LEN characters, also once trimmed; short; empty; blank),
\* or one it accepts (below, at and above MAX_DESCRIPTION characters)
DescRejected ==
    <<TextOf(Filler(DESCRIPTION_MIN_LEN)),
      TextOf("  " \o Filler(DESCRIPTION_MIN_LEN) \o "   "),
      TextOf("Curta"), MetaOf(""), MetaOf(Filler(10)), TextOf(" ")>>
DescAccepted ==
    <<TextOf(Lettered(1, DESCRIPTION_MIN_LEN + 1)),
      TextOf(" " \o Lettered(2, MAX_DESCRIPTION) \o " "),
      TextOf(Lettered(3, MAX_DESCRIPTION + 1)),
      MetaOf(Lettered(4, MAX_DESCRIPTION - 1)),
      MetaOf(Lettered(5, MAX_DESCRIPTION + 150)),
      TextOf("   " \o Lettered(6, MAX_DESCRIPTION + 100))>>

Candidates(rejected, accepted) ==
    {[i \in 1..6 |-> IF f[i] = 0 THEN NotFound
                     ELSE IF f[i] = 1 THEN rejected[i] ELSE accepted[i]] :
        f \in [1..6 -> 0..2]}

TitleCases ==
    {[BaseDoc EXCEPT !.titles = t] : t \in Candidates(TitleRejected, TitleAccepted)}
DescCases ==
    {[BaseDoc EXCEPT !.descs = d] : d \in Candidates(DescRejected, DescAccepted)}

\* the k-th element a page offers to a list field that keeps texts longer
\* than lo and shorter than hi: texts of lo, lo + 1, hi - 1 and hi characters,
\* an empty element, repetitions of earlier texts (two of them padded with
\* white space), and distinct plain texts
ListedText(k, lo, hi) ==
    IF k = 3 THEN Filler(lo)
    ELSE IF k = 6 THEN Filler(hi)
    ELSE IF k = 7 THEN Filler(hi - 1)
    ELSE IF k = 10 THEN Filler(lo + 1)
    ELSE IF k = 11 THEN ""
    ELSE IF k = 4 THEN "  Resultado comprovado numero A\n"
    ELSE IF k = 8 THEN "\tResultado comprovado numero E "
    ELSE IF k = 12 THEN "Resultado comprovado numero B"
    ELSE "Resultado comprovado numero " \o Letter(k)

Listed(n, lo, hi) == [k \in 1..n |-> ListedText(k, lo, hi)]

\* the ways to cut 1..n in three consecutive runs
Cuts ==
    {t \in (0..MaxListed) \X (0..MaxListed) \X (0..MaxListed) :
        t[1] <= t[2] /\ t[2] <= t[3]}

BenefitCases ==
    {[BaseDoc EXCEPT !.benefits =
         LET all == Listed(t[3], BENEFIT_MIN_LEN, BENEFIT_MAX_LEN)
         IN  <<SubSeq(all, 1, t[1]), SubSeq(all, t[1] + 1, t[2]),
               SubSeq(all, t[2] + 1, t[3])>>] : t \in Cuts}

TestimonialCases ==
    {[BaseDoc EXCEPT !.testimonials =
         LET all == Listed(t[3], TESTIMONIAL_MIN_LEN, TESTIMONIAL_MAX_LEN)
         IN  <<SubSeq(all, 1, t[2]), SubSeq(all, t[2] + 1, t[3])>>] :
        t \in {u \in Cuts : u[1] = 0}}

\* the src of the k-th <img>: inline data, none, root-relative, absolute
ImgSrc(k) ==
    IF k % 5 = 0 THEN "data:image/gif;base64,R0lGOD"
    ELSE IF k % 7 = 0 THEN ""
    ELSE IF k % 3 = 0 THEN "/img/" \o Letter(k) \o ".png"
    ELSE "http://cdn.io/" \o Letter(k) \o ".jpg"

ImageCases ==
    {[BaseDoc EXCEPT !.imgs = [k \in 1..n |-> ImgSrc(k)]] : n \in 0..MaxListed}

\* the k-th player: an iframe with src, or a <video> with or without <source>
VideoElement(k) ==
    [src |-> IF k % 3 = 0 THEN "" ELSE "https://www.youtube.com/embed/" \o Letter(k),
     source |-> IF k % 6 = 0 THEN "" ELSE "/media/" \o Letter(k) \o ".mp4"]

VideoCases ==
    {[BaseDoc EXCEPT !.videos = [k \in 1..n |-> VideoElement(k)]] : n \in 0..MaxListed}

\* texts of elements the price selectors match: two prices in one text, a
\* bare price, a dollar amount inside a sentence, no price, a dollar sign
\* with a space, four digits with no thousands separator, a currency sign
\* followed by no digit before the real price
PricedTexts ==
    {"De R$ 1.299,00 por R$ 199,90 hoje", "R$ 199,90", "\n  Apenas USD 49.99!  ",
     "Consulte o vendedor", "Total: $ 20", "R$ 1999,90", "R$ -- ou $5 a vista"}

TextLists(n) == UNION {[1..k -> PricedTexts] : k \in 0..n}

\* what the first selector matches, and then the second: nothing, a price,
\* or a dollar amount
PriceCases ==
    {[BaseDoc EXCEPT !.prices = <<first, second>>] :
        first \in TextLists(MaxPriced),
        second \in {<<>>, <<"R$ 199,90">>, <<"Total: $ 20">>}}

FieldDocs ==
    TitleCases \cup DescCases \cup BenefitCases \cup TestimonialCases
        \cup PriceCases \cup ImageCases \cup VideoCases \cup {HtmlBadImg, JsonBody}

\* a route handler calls extractData for one of requests (at most limit times)
Serve(c, requests, limit) ==
    \E req \in requests : nCalls < limit /\ Begin(c, req.url, req.method)

Strategy(c) ==
    \/ Detect(c)
    \/ \E resp \in HttpResponses : HttpSettle(c, resp)
    \/ \E ok \in BOOLEAN : BrowserLaunch(c, ok)
    \/ \E resp \in PageResponses : BrowserStep(c, resp)
    \/ \E ok \in BOOLEAN : BrowserClose(c, ok)

(***************************************************************************)
(* Spec: requests of every sampled url and method, served one at a time.   *)
(***************************************************************************)
Next ==
    \/ Serve(1, Requests, MaxCalls)
    \/ Strategy(1)
    \/ ClearCache

Spec == Init /\ [][Next]_vars

(***************************************************************************)
(* SpecTime: requests for one url and method, served one at a time, while  *)
(* the clock advances by a millisecond or by a millisecond less than the   *)
(* TTL.                                                                    *)
(***************************************************************************)
TimedRequests == {[url |-> "http://loja.io/p", method |-> "auto"]}

TickSteps == {1, CACHE_TTL - 1}

NextTime ==
    \/ Serve(1, TimedRequests, MaxTimedCalls)
    \/ Strategy(1)
    \/ ClearCache
    \/ \E d \in TickSteps : Tick(d)

SpecTime == Init /\ [][NextTime]_vars

(***************************************************************************)
(* SpecRace: requests for one key, any of which may start while another is *)
(* suspended at an await, and cache clears between their segments.         *)
(***************************************************************************)
(***************************************************************************)
(* AdvancedAIEngine.  A message of a conversation is [role, message,       *)
(* timestamp] (and intent for the assistant's); by is history: the number  *)
(* of the generateResponse call that pushed it.  The text a sales strategy *)
(* builds is named by its strategy.                                        *)
(***************************************************************************)
intentPatterns ==
    <<[intent |-> "greeting",
       patterns |-> {"olá", "oi", "bom dia", "boa tarde", "boa noite", "hey", "e aí"}],
      [intent |-> "price",
       patterns |-> {"preço", "valor", "custa", "investimento", "quanto", "custo"}],
      [intent |-> "benefits",
       patterns |-> {"benefício", "vantagem", "o que ganho", "vantagens", "benefícios"}],
      [intent |-> "howItWorks",
       patterns |-> {"como funciona", "funciona", "método", "processo", "como é"}],
      [intent |-> "guarantee",
       patterns |-> {"garantia", "seguro", "risco", "devolução", "reembolso"}],
      [intent |-> "testimonials",
       patterns |-> {"depoimento", "opinião", "funciona mesmo", "resultado", "avaliação"}],
      [intent |-> "bonus",
       patterns |-> {"bônus", "extra", "brinde", "grátis", "adicional"}],
      [intent |-> "purchase",
       patterns |-> {"comprar", "adquirir", "quero", "como compro", "onde compro"}],
      [intent |-> "doubt",
       patterns |-> {"dúvida", "pergunta", "ajuda", "não entendi", "explica"}],
      [intent |-> "objection",
       patterns |-> {"caro", "não tenho dinheiro", "não funciona", "não acredito",
                     "desconfiança"}]>>

RECURSIVE IntentFrom(_, _)
IntentFrom(lowerMessage, i) ==
    IF i > Len(intentPatterns) THEN "general"
    ELSE IF \E pattern \in intentPatterns[i].patterns : Includes(lowerMessage, pattern)
         THEN intentPatterns[i].intent
         ELSE IntentFrom(lowerMessage, i + 1)

analyzeIntent(message) == IntentFrom(ToLowerCase(message), 1)

\* the response of salesStrategies[intent] || salesStrategies.doubt
generateWithStrategy(intent) ==
    IF \E i \in 1..Len(intentPatterns) : intentPatterns[i].intent = intent
    THEN "strategy " \o intent
    ELSE "strategy doubt"

\* generateResponse from "Adicionar resposta ao historico" to its return
SaveConversation(ch, response, cache) ==
    LET conversation ==
            Append(ch.conversation,
                   [role |-> "assistant", message |-> response, timestamp |-> ch.now,
                    intent |-> ch.intent, by |-> ch.id])
    IN  [chat |-> [ch EXCEPT !.pc = "done", !.conversation = conversation],
         cache |-> (ch.conversationId :> conversation) @@ cache]

\* aiEngine.generateResponse(message, pageData, conversationId) up to its
\* await of generateWithAPI, or to its return when no API key is configured
GenerateResponse(c, message, conversationId, hasKey) ==
    /\ chats[c].pc \in {"idle", "done"}
    /\ LET stored == IF conversationId \in DOMAIN conversationCache
                     THEN conversationCache[conversationId] ELSE <<>>
           recent(m) == now - m.timestamp < CONVERSATION_TTL
           conversation ==
               Append(SelectSeq(stored, recent),
                      [role |-> "user", message |-> message, timestamp |-> now,
                       by |-> nChats + 1])
           ch == [IdleChat EXCEPT !.id = nChats + 1,
                                  !.conversationId = conversationId,
                                  !.message = message,
                                  !.intent = analyzeIntent(message),
                                  !.conversation = conversation,
                                  !.now = now]
       IN  IF hasKey
           THEN /\ chats' = [chats EXCEPT ![c] = [ch EXCEPT !.pc = "api"]]
                /\ UNCHANGED conversationCache
           ELSE LET out == SaveConversation(ch, generateWithStrategy(ch.intent),
                                            conversationCache)
                IN  /\ chats' = [chats EXCEPT ![c] = out.chat]
                    /\ conversationCache' = out.cache
    /\ nChats' = nChats + 1
    /\ UNCHANGED <<dataCache, now, ticks, calls, nCalls, prev, clearedKeys>>

\* the await of generateWithAPI settles: the API answered with content, or
\* the request failed and the internal strategy answers
ApiSettle(c, reply) ==
    /\ chats[c].pc = "api"
    /\ LET response == IF reply.ok THEN reply.content
                       ELSE generateWithStrategy(chats[c].intent)
           out == SaveConversation(chats[c], response, conversationCache)
       IN  /\ chats' = [chats EXCEPT ![c] = out.chat]
           /\ conversationCache' = out.cache
    /\ UNCHANGED <<dataCache, now, ticks, calls, nCalls, prev, clearedKeys, nChats>>

(***************************************************************************)
(* SpecChat: POST /chat requests with no url, on a server that has         *)
(* OPENROUTER_API_KEY set; conversationId is 'default' when the body names *)
(* none.  No clear request arrives while the chats run.                    *)
(***************************************************************************)
ChatMessages == {"Oi, tudo bem?", "Quanto custa?", "Me conta mais"}
ConversationIds == {"default", "sessao-7"}
ApiReplies == {[ok |-> TRUE, content |-> "Temos uma oferta para voce"],
               [ok |-> FALSE, content |-> ""]}

Chat(c, limit) ==
    \E message \in ChatMessages, conversationId \in ConversationIds :
        nChats < limit /\ GenerateResponse(c, message, conversationId, TRUE)

NextChat ==
    \/ \E c \in Slots : Chat(c, MaxChats)
    \/ \E c \in Slots, reply \in ApiReplies : ApiSettle(c, reply)

SpecChat == Init /\ [][NextChat]_vars

(***************************************************************************)
(* SpecLive: requests served one at a time, where every await of a         *)
(* strategy that is under way eventually settles, one way or the other,    *)
(* and the promise of detectBestMethod, which awaits nothing, settles too. *)
(* The second condition is WF_vars(Detect(1)) written out: Detect(1) is    *)
(* enabled exactly when the call is at its await of detectBestMethod.      *)
(***************************************************************************)
LiveRequests ==
    {[url |-> "http://loja.io/p", method |-> "auto"],
     [url |-> "loja.io", method |-> "auto"],
     [url |-> "http://loja.io/p", method |-> "playwright"],
     [url |-> "http://loja.io/p", method |-> "curl"]}

\* an await of the strategy call c has under way settles
StrategySettles(c) ==
    \/ \E resp \in HttpResponses : HttpSettle(c, resp)
    \/ \E ok \in BOOLEAN : BrowserLaunch(c, ok)
    \/ \E resp \in PageResponses : BrowserStep(c, resp)
    \/ \E ok \in BOOLEAN : BrowserClose(c, ok)

NextLive ==
    \/ Serve(1, LiveRequests, MaxLiveCalls)
    \/ Strategy(1)
    \/ ClearCache

SpecLive ==
    /\ Init
    /\ [][NextLive]_vars
    /\ WF_vars(StrategySettles(1))
    /\ ([]<>(calls[1].pc # "detect") \/ []<><<Detect(1)>>_vars)

(***************************************************************************)
(* SpecKeys: /extract passes the url and method of the query string on as  *)
(* they are; two requests whose url and method differ and whose            *)
(* concatenations with "_" agree, served one at a time.                    *)
(***************************************************************************)
KeyRequests ==
    {[url |-> "http://loja.io/p", method |-> "axios_auto"],
     [url |-> "http://loja.io/p_axios", method |-> "auto"]}

NextKeys ==
    \/ Serve(1, KeyRequests, MaxKeyCalls)
    \/ Strategy(1)
    \/ ClearCache

SpecKeys == Init /\ [][NextKeys]_vars

RacingRequests == {[url |-> "http://loja.io/p", method |-> "auto"]}

NextRace ==
    \/ \E c \in Slots : Serve(c, RacingRequests, MaxRacingCalls)
    \/ \E c \in Slots : Strategy(c)
    \/ ClearCache

SpecRace == Init /\ [][NextRace]_vars

(***************************************************************************)
(* SpecFields: requests served one at a time whose page is any of the      *)
(* sampled pages, fetched by the first strategy; a url that does not parse *)
(* gives the default record, a repeated request a cached one.              *)
(***************************************************************************)
FieldRequests ==
    {[url |-> "http://loja.io/p", method |-> "auto"],
     [url |-> "loja.io", method |-> "auto"]}

FieldResponses == {[ok |-> TRUE, html |-> d, responseUrl |-> ""] : d \in FieldDocs}

NextFields ==
    \/ Serve(1, FieldRequests, MaxFieldCalls)
    \/ Detect(1)
    \/ \E resp \in FieldResponses : HttpSettle(1, resp)
    \/ ClearCache

SpecFields == Init /\ [][NextFields]_vars

(***************************************************************************)
(* SpecDetect: auto requests for urls of many hosts, served one at a time  *)
(* while the network is down and no browser can be launched: every         *)
(* strategy returns failure, so a call shows the strategy detection chose  *)
(* and the fallback chain after it.                                        *)
(***************************************************************************)
\* every entry of the three tables, alone and as a subdomain suffix, hosts in
\* upper and mixed case, hosts matching two tables, hosts that contain an
\* entry without being that site, and hosts matching none
OddHosts ==
    {"WWW.Amazon.COM", "Loja.Shopify.Com", "YOUTUBE.COM",
     "amazon.com.shopify.com", "facebook.com.booking.com",
     "wordpress.com.ebay.com.br", "netflix.com", "booking.community.org",
     "loja.io", "example.org", "amazon.co.uk", "localhost"}

DetectHosts ==
    {jsHeavySites[i] : i \in 1..Len(jsHeavySites)}
        \cup {cloudflareSites[i] : i \in 1..Len(cloudflareSites)}
        \cup {botBlockingSites[i] : i \in 1..Len(botBlockingSites)}
        \cup {"m." \o jsHeavySites[i] : i \in 1..Len(jsHeavySites)}
        \cup {"loja." \o cloudflareSites[i] : i \in 1..Len(cloudflareSites)}
        \cup {"www." \o botBlockingSites[i] : i \in 1..Len(botBlockingSites)}
        \cup OddHosts

\* what follows the host: nothing, a path or a port and path naming a site of
\* the tables, a query naming one
UrlTails == {"", "/share/facebook.com", ":8080/wix.com/loja"}

DetectRequests ==
    {[url |-> "https://" \o host \o tail, method |-> "auto"] :
        host \in DetectHosts, tail \in UrlTails}
    \cup {[url |-> "http://" \o host \o "?ref=amazon.com", method |-> "auto"] :
            host \in OddHosts}

NextDetect ==
    \/ Serve(1, DetectRequests, MaxDetectCalls)
    \/ Detect(1)
    \/ HttpSettle(1, Rejected)
    \/ BrowserLaunch(1, FALSE)

SpecDetect == Init /\ [][NextDetect]_vars

(***************************************************************************)
(* SpecShared: requests for two keys, any of which may start while another *)
(* is suspended at an await, cache clears and the clock moving between     *)
(* their segments; no browser can be launched.                             *)
(***************************************************************************)
SharedRequests ==
    {[url |-> "http://loja.io/p", method |-> "auto"],
     [url |-> "http://outra.io/q", method |-> "cloudscraper"]}

\* a request is rejected, or answered with the page of its url
SharedResponses ==
    {Rejected, [ok |-> TRUE, html |-> HtmlLanding, responseUrl |-> ""]}

NextShared ==
    \/ \E c \in Slots : Serve(c, SharedRequests, MaxSharedCalls)
    \/ \E c \in Slots : Detect(c)
    \/ \E c \in Slots : \E resp \in SharedResponses : HttpSettle(c, resp)
    \/ \E c \in Slots : BrowserLaunch(c, FALSE)
    \/ ClearCache
    \/ Tick(1)

SpecShared == Init /\ [][NextShared]_vars

(***************************************************************************)
(* Properties.                                                             *)
(***************************************************************************)
StrategyNames == {"axios", "cloudscraper", "puppeteer", "playwright"}

Ended(c) == calls[c].pc = "done"

InBrowserStrategy(c) == calls[c].pc \in {"launch", "page", "close"}

\* no attempt of the call fetched markup: each returned failure or threw
EveryStrategyFailed(c) ==
    /\ Ended(c)
    /\ ~calls[c].hit
    /\ \A i \in 1..Len(calls[c].attempts) : calls[c].attempts[i].r # "ok"

\* the four strategies were each invoked and each returned success: false
AllFourReturnedFailure(c) ==
    /\ {calls[c].attempts[i].s : i \in 1..Len(calls[c].attempts)} = StrategyNames
    /\ \A i \in 1..Len(calls[c].attempts) : calls[c].attempts[i].r = "fail"

\* C1: extractData is total: however the strategies and the field extractor
\* end (success, success: false, or an exception), a call that has ended has
\* returned a content record and no exception has left it.
C1_ExtractDataTotal ==
    \A c \in Slots :
        Ended(c) =>
            /\ ~calls[c].raised
            /\ calls[c].ret # NoData
            /\ {"url", "images", "extractionMethod"} \subseteq DOMAIN calls[c].ret

\* C1 witness: a call whose last strategy threw has returned the default record
C1_Witness ==
    \E c \in Slots :
        /\ Ended(c)
        /\ Len(calls[c].attempts) > 0
        /\ calls[c].attempts[Len(calls[c].attempts)].r = "threw"
        /\ calls[c].ret.extractionMethod = "fallback"
        /\ ~calls[c].raised

\* C2: once a browser strategy has finished, whatever its exit path, close()
\* has been invoked on every browser the call launched, and none is left open.
C2_BrowserClosedOnExit ==
    \A c \in Slots :
        /\ ~InBrowserStrategy(c) =>
               calls[c].launched = calls[c].closeCalls /\ calls[c].browser # "open"
        /\ calls[c].pc = "close" => calls[c].launched = calls[c].closeCalls

\* C2 witness: both browser strategies launched a browser and failed after
\* the launch; the call has ended with close() invoked on both
C2_Witness ==
    \E c \in Slots :
        /\ Ended(c)
        /\ AllFourReturnedFailure(c)
        /\ calls[c].launched = 2
        /\ calls[c].closeCalls = 2

\* C3: after a primary strategy that returned failure, the other three
\* strategies are tried in the order axios, cloudscraper, puppeteer,
\* playwright with the primary left out, no strategy is invoked after one has
\* succeeded, and the default record is returned only after all four failed.
C3_FallbackOrder ==
    \A c \in Slots :
        LET att == calls[c].attempts
        IN  (/\ calls[c].reqMethod \in StrategyNames \cup {"auto"}
             /\ Len(att) >= 1
             /\ att[1].r = "fail") =>
                /\ Len(att) <= 4
                /\ \A i \in 2..Len(att) : att[i].s = fallbackMethods(att[1].s)[i - 1]
                /\ \A i \in 1..(Len(att) - 1) : att[i].r = "fail"
                /\ (Ended(c) /\ calls[c].ret.extractionMethod = "fallback")
                       => AllFourReturnedFailure(c)

\* C4 as claimed: when every strategy fails the call returns a record with
\* extractionMethod fallback whose list fields are all non-empty.
C4_AllListsNonEmpty ==
    \A c \in Slots :
        EveryStrategyFailed(c) =>
            /\ calls[c].ret.extractionMethod = "fallback"
            /\ Len(calls[c].ret.benefits) > 0
            /\ Len(calls[c].ret.testimonials) > 0
            /\ Len(calls[c].ret.images) > 0
            /\ Len(calls[c].ret.videos) > 0

\* C4 amended: when every strategy fails the call returns a record with
\* extractionMethod fallback for the requested url whose benefits (5) and
\* testimonials (3) are non-empty and whose images and videos are empty.
C4_DefaultTemplate ==
    \A c \in Slots :
        EveryStrategyFailed(c) =>
            /\ calls[c].ret.extractionMethod = "fallback"
            /\ calls[c].ret.url = calls[c].url
            /\ Len(calls[c].ret.benefits) = 5
            /\ Len(calls[c].ret.testimonials) = 3
            /\ calls[c].ret.images = <<>>
            /\ calls[c].ret.videos = <<>>

\* C4 witness: the four strategies each returned failure and the call ended
C4_Witness ==
    \E c \in Slots :
        /\ EveryStrategyFailed(c)
        /\ AllFourReturnedFailure(c)
        /\ calls[c].ret.extractionMethod = "fallback"

\* the step is the start of a call in slot c
BeginStep(c) == nCalls' = nCalls + 1 /\ calls'[c].id = nCalls'

\* the step is the return of the call in slot c
ReturnStep(c) == calls'[c].pc = "done" /\ calls'[c] # calls[c]

\* C5: a call that returns the default record leaves dataCache as it was (no
\* entry ever holds the default record), so the call for the same url and
\* method that follows it is not served from the cache and starts over.
C5_FallbackNotCached ==
    /\ [](\A k \in DOMAIN dataCache : dataCache[k].data.extractionMethod # "fallback")
    /\ [][\A c \in Slots :
            /\ (ReturnStep(c) /\ calls'[c].ret.extractionMethod = "fallback")
                   => dataCache' = dataCache
            /\ (/\ BeginStep(c)
                /\ prev.kind = "fallback"
                /\ prev.url = calls'[c].url
                /\ prev.reqMethod = calls'[c].reqMethod)
                   => ~calls'[c].hit /\ calls'[c].pc \in {"detect", "http", "launch"}
         ]_vars

\* C5 witness: the call that followed a default-record answer for the same
\* url and method is fetching again
C5_Witness ==
    \E c \in Slots :
        /\ calls[c].after.kind = "fallback"
        /\ ~calls[c].hit
        /\ Len(calls[c].attempts) >= 1

\* C6: a call that starts while dataCache holds a fresh entry under its key
\* returns that entry's record at once: no strategy is selected or invoked
\* and the cache is left as it was.
C6_FreshHit ==
    [][\A c \in Slots :
         LET key == calls'[c].url \o "_" \o calls'[c].reqMethod
         IN  (/\ BeginStep(c)
              /\ key \in DOMAIN dataCache
              /\ now - dataCache[key].timestamp < CACHE_TTL)
                 => /\ calls'[c].pc = "done"
                    /\ calls'[c].ret = dataCache[key].data
                    /\ calls'[c].attempts = <<>>
                    /\ calls'[c].method = calls'[c].reqMethod
                    /\ dataCache' = dataCache
      ]_vars

\* C6 witness: an auto call was served an entry one millisecond short of the TTL
C6_Witness ==
    \E c \in Slots :
        /\ Ended(c)
        /\ calls[c].hit
        /\ calls[c].reqMethod = "auto"
        /\ calls[c].entryAge = CACHE_TTL - 1
        /\ calls[c].ret.extractionMethod \in StrategyNames

C8_ClearForcesFetch ==
    \A c \in Slots :
        calls[c].postClear =>
            /\ ~calls[c].hit
            /\ Ended(c) => Len(calls[c].attempts) >= 1

\* C9 as claimed: the lookup serves an entry exactly when its age is at most
\* the TTL.
C9_FreshUpToTTL ==
    \A c \in Slots :
        calls[c].pc # "idle" =>
            (calls[c].hit <=> calls[c].entryAge \in 0..CACHE_TTL)

\* C9 amended: the lookup serves an entry exactly when its age is less than
\* the TTL; an entry exactly as old as the TTL is stale.
C9_FreshBelowTTL ==
    \A c \in Slots :
        calls[c].pc # "idle" =>
            (calls[c].hit <=> calls[c].entryAge \in 0..(CACHE_TTL - 1))

\* C9 witness: a call found an entry exactly as old as the TTL and fetched anew
C9_Witness ==
    \E c \in Slots :
        /\ calls[c].entryAge = CACHE_TTL
        /\ ~calls[c].hit
        /\ Len(calls[c].attempts) >= 1

\* C10: no fetch strategy throws past its boundary: every attempt ends with a
\* returned result, also when tearing the browser down fails.
C10_StrategiesNeverThrow ==
    \A c \in Slots :
        \A i \in 1..Len(calls[c].attempts) : calls[c].attempts[i].r # "threw"

\* C11: a URL that does not parse reaches the caller of extractData as an
\* error: the call raises and hands back no content record.
C11_MalformedUrlPropagates ==
    \A c \in Slots :
        (Ended(c) /\ ~IsValidURL(calls[c].url))
            => calls[c].raised /\ calls[c].ret = NoData

\* no text occurs twice in list
NoDuplicates(list) ==
    \A i, j \in 1..Len(list) : list[i] = list[j] => i = j

\* C12: every record a call returns, whether extracted, cached or the default
\* one, has at most 8 benefits, 5 testimonials, 10 images and 5 videos, and
\* no text twice among its benefits or among its testimonials.
C12_ListCaps ==
    \A c \in Slots :
        Ended(c) =>
            /\ Len(calls[c].ret.benefits) <= 8
            /\ Len(calls[c].ret.testimonials) <= 5
            /\ Len(calls[c].ret.images) <= 10
            /\ Len(calls[c].ret.videos) <= 5
            /\ NoDuplicates(calls[c].ret.benefits)
            /\ NoDuplicates(calls[c].ret.testimonials)

\* C12 witness: a page offering MaxListed benefit elements, repetitions among
\* them, gave a record with exactly 8 benefits
C12_Witness ==
    \E c \in Slots :
        /\ Ended(c)
        /\ calls[c].fetched.success
        /\ LET b == calls[c].fetched.html.benefits
           IN  Len(b[1]) + Len(b[2]) + Len(b[3]) = MaxListed
        /\ Len(calls[c].ret.benefits) = 8

\* C13: the description of every record a call returns is at most 500
\* characters long, however long the text it was taken from.
C13_DescriptionAtMost500 ==
    \A c \in Slots :
        Ended(c) => Len(calls[c].ret.description) <= 500

\* C13 witness: a description of exactly 500 characters was cut from a text
\* of more than 500
C13_Witness ==
    \E c \in Slots :
        /\ Ended(c)
        /\ calls[c].fetched.success
        /\ Len(calls[c].ret.description) = 500
        /\ \E i \in 1..6 :
               /\ Len(calls[c].fetched.html.descs[i].text) > 500
               /\ \A j \in 1..(i - 1) : ~calls[c].fetched.html.descs[j].found

\* C14: a returned record whose extractionMethod is fallback is the default
\* record of the url the caller passed, whatever the url and the method.
C14_FallbackIsDefault ==
    \A c \in Slots :
        (Ended(c) /\ calls[c].ret.extractionMethod = "fallback")
            => calls[c].ret = getDefaultData(calls[c].url)

\* C15: a call whose last strategy fetched the page returns the record the
\* field extractor made of that result, tagged with the name of that strategy,
\* and in the same step saves it with the current time under the key of the
\* url and method it was called with.
C15_SuccessTaggedAndSaved ==
    [][\A c \in Slots :
         LET cr == calls'[c]
             n == Len(cr.attempts)
             key == cr.url \o "_" \o cr.reqMethod
         IN  (ReturnStep(c) /\ n >= 1 /\ cr.attempts[n].r = "ok")
                 => /\ cr.ret.extractionMethod = cr.attempts[n].s
                    /\ cr.ret.url = cr.fetched.finalUrl
                    /\ key \in DOMAIN dataCache'
                    /\ dataCache'[key].data = cr.ret
                    /\ dataCache'[key].timestamp = now
      ]_vars

\* C16: the strategy chosen for an auto request is decided by the lower-cased
\* host name of the url alone: playwright when it contains an entry of the
\* JS-heavy table, else cloudscraper when it contains one of the Cloudflare
\* table, else puppeteer when it contains one of the bot-blocking table, else
\* axios.
C16_DetectByHostname ==
    \A c \in Slots :
        (/\ calls[c].reqMethod = "auto"
         /\ IsValidURL(calls[c].url)
         /\ Len(calls[c].attempts) >= 1) =>
            LET host == ToLowerCase(Hostname(calls[c].url))
                has(sites) == \E site \in sites : Includes(host, site)
                expected ==
                    IF has({"facebook.com", "instagram.com", "linkedin.com",
                            "twitter.com", "x.com", "tiktok.com", "youtube.com",
                            "pinterest.com", "snapchat.com"}) THEN "playwright"
                    ELSE IF has({"shopify.com", "wordpress.com", "wix.com",
                                 "squarespace.com"}) THEN "cloudscraper"
                    ELSE IF has({"amazon.com", "ebay.com", "mercadolivre.com",
                                 "aliexpress.com", "booking.com", "airbnb.com"})
                    THEN "puppeteer"
                    ELSE "axios"
            IN  /\ calls[c].attempts[1].s = expected
                /\ calls[c].attempts[1].s \in StrategyNames
                /\ Hostname(calls[c].url) = "WWW.Amazon.COM"
                       => calls[c].attempts[1].s = "puppeteer"
                /\ Hostname(calls[c].url) = "amazon.com.shopify.com"
                       => calls[c].attempts[1].s = "cloudscraper"
                /\ Hostname(calls[c].url) = "facebook.com.booking.com"
                       => calls[c].attempts[1].s = "playwright"
                /\ Hostname(calls[c].url) \in {"loja.io", "amazon.co.uk", "localhost"}
                       => calls[c].attempts[1].s = "axios"

\* C16 witness: a url on an upper-case bot-blocking host, with the name of a
\* JS-heavy site in its path, was given to puppeteer
C16_Witness ==
    \E c \in Slots :
        /\ calls[c].reqMethod = "auto"
        /\ calls[c].url = "https://WWW.Amazon.COM/share/facebook.com"
        /\ Len(calls[c].attempts) >= 1
        /\ calls[c].attempts[1].s = "puppeteer"

\* C17: a call is served from the cache only an entry that a call with the
\* same url and the same requested method saved: what an auto call saved is
\* never served to a call naming a strategy, nor the reverse, also when auto
\* resolved to that strategy.
C17_AutoAndNamedKeysDistinct ==
    /\ [](\A k \in DOMAIN dataCache :
             k = dataCache[k].by.url \o "_" \o dataCache[k].by.reqMethod)
    /\ [][\A c \in Slots :
            (BeginStep(c) /\ calls'[c].hit)
                => /\ calls'[c].cacheKey \in DOMAIN dataCache
                   /\ dataCache[calls'[c].cacheKey].by.url = calls'[c].url
                   /\ dataCache[calls'[c].cacheKey].by.reqMethod = calls'[c].reqMethod
         ]_vars

\* C17 witness: a call naming axios fetches anew although the cache holds the
\* record an auto call for the same url fetched with axios
C17_Witness ==
    \E c \in Slots :
        /\ calls[c].reqMethod = "axios"
        /\ ~calls[c].hit
        /\ Len(calls[c].attempts) >= 1
        /\ (calls[c].url \o "_auto") \in DOMAIN dataCache
        /\ dataCache[calls[c].url \o "_auto"].data.extractionMethod = "axios"

\* C18: the strategy attempts of one call are strictly sequential: at most
\* one is in flight, it is the last one started, and every attempt before the
\* last has returned failure.
C18_AttemptsSequential ==
    \A c \in Slots :
        LET att == calls[c].attempts
        IN  \A i \in 1..Len(att) :
                /\ i < Len(att) => att[i].r = "fail"
                /\ att[i].r = "pending"
                       => i = Len(att) /\ calls[c].pc \in {"http", "launch", "page", "close"}
                /\ (i = Len(att) /\ calls[c].pc \in {"http", "launch", "page", "close"})
                       => att[i].r = "pending"

\* C18 witness: the fourth strategy is in flight after three returned failure
C18_Witness ==
    \E c \in Slots :
        /\ Len(calls[c].attempts) = 4
        /\ calls[c].attempts[4].r = "pending"
        /\ \A i \in 1..3 : calls[c].attempts[i].r = "fail"

\* C19: whatever the interleaving of calls and clears, every entry of
\* dataCache sits under the key of the call that saved it, holds the record
\* extracted from a successful fetch for that call's url (never the default
\* record), and was captured no later than now.
C19_CacheConsistent ==
    \A k \in DOMAIN dataCache :
        LET e == dataCache[k]
        IN  /\ k = e.by.url \o "_" \o e.by.reqMethod
            /\ \E req \in SharedRequests \cup Requests \cup TimedRequests :
                   req.url = e.by.url /\ req.method = e.by.reqMethod
            /\ e.data # getDefaultData(e.by.url)
            /\ e.data.url = e.by.finalUrl
            /\ e.by.finalUrl \in {e.by.url, RedirectUrl}
            /\ e.data.extractionMethod \in StrategyNames
            /\ e.timestamp >= 0
            /\ e.timestamp <= now

\* C19 witness: two calls for different keys ran side by side (both began
\* before either saved) and the cache holds the entry of each, the second
\* captured later than the first
C19_Witness ==
    /\ \A c \in Slots : Ended(c) /\ calls[c].cacheKey \in DOMAIN dataCache
    /\ calls[1].cacheKey # calls[2].cacheKey
    /\ calls[2].start < dataCache[calls[1].cacheKey].timestamp
    /\ dataCache[calls[1].cacheKey].timestamp < dataCache[calls[2].cacheKey].timestamp

\* the candidate of title selector i is one the title loop accepts
TitleAcceptable(titles, i) ==
    LET t == IF titles[i].content # "" THEN titles[i].content ELSE titles[i].text
    IN  /\ titles[i].found
        /\ Len(Trim(t)) > 5
        /\ ~Includes(ToLowerCase(t), "error")

\* C20: the title of an extracted record is the trimmed candidate of the
\* first of the six title selectors whose candidate is longer than 5
\* characters once trimmed and does not contain "error" in lower case, and
\* is empty when there is none; an og:title of "Acme Pro" with no heading
\* gives the title "Acme Pro".
C20_TitleFirstAccepted ==
    \A c \in Slots :
        (Ended(c) /\ calls[c].fetched.success /\ calls[c].ret.extractionMethod # "fallback")
            => LET titles == calls[c].fetched.html.titles
                   ok == {i \in 1..6 : TitleAcceptable(titles, i)}
               IN  /\ ok = {} => calls[c].ret.title = ""
                   /\ \A i \in ok :
                          (\A j \in ok : i <= j)
                              => calls[c].ret.title
                                   = Trim(IF titles[i].content # "" THEN titles[i].content
                                          ELSE titles[i].text)
                   /\ (titles = <<NotFound, NotFound, NotFound, MetaOf("Acme Pro"),
                                  NotFound, NotFound>>)
                          => calls[c].ret.title = "Acme Pro"
                   /\ calls[c].ret.title
                          \notin {"Home", "Loja5", "Server ERROR 500", "Internal error"}

\* C20 witness: the heading candidates were rejected (too short, five
\* characters, naming an error) and the og:title "Acme Pro" became the title,
\* with later candidates present
C20_Witness ==
    \E c \in Slots :
        /\ Ended(c)
        /\ calls[c].fetched.success
        /\ calls[c].fetched.html.titles[1] = TitleRejected[1]
        /\ calls[c].fetched.html.titles[2] = TitleRejected[2]
        /\ calls[c].fetched.html.titles[3] = TitleRejected[3]
        /\ calls[c].fetched.html.titles[6] = TitleAccepted[6]
        /\ calls[c].ret.title = "Acme Pro"

\* C23: within one call each of the four strategies is invoked at most once,
\* whatever the method argument, so a call makes at most four fetches.
C23_EachStrategyOnce ==
    \A c \in Slots :
        LET att == calls[c].attempts
        IN  /\ Len(att) <= 4
            /\ \A i, j \in 1..Len(att) : att[i].s = att[j].s => i = j

\* C24: a call that invoked a strategy returns the default record only if all
\* four strategies were attempted and each returned failure; when a fetch
\* succeeded the caller is given the record extracted from it.
C24_DefaultOnlyAfterAllFailed ==
    \A c \in Slots :
        (Ended(c) /\ ~calls[c].hit /\ Len(calls[c].attempts) >= 1) =>
            /\ calls[c].ret = getDefaultData(calls[c].url) => AllFourReturnedFailure(c)
            /\ (\E i \in 1..Len(calls[c].attempts) : calls[c].attempts[i].r = "ok")
                   => /\ calls[c].ret # getDefaultData(calls[c].url)
                      /\ calls[c].ret.url = calls[c].fetched.finalUrl

\* C26: of two calls for the same url and method that run side by side from
\* a cache with no entry for their key, at most one invokes fetch strategies.
C26_OneFetchPerKey ==
    \A c, d \in Slots :
        (/\ c # d
         /\ calls[c].pc # "idle"
         /\ calls[d].pc # "idle"
         /\ calls[c].cacheKey = calls[d].cacheKey
         /\ ~Ended(c))
            => calls[d].attempts = <<>> \/ calls[c].attempts = <<>>

\* C28: a url whose host is exactly an entry of one of the three tables is
\* given the strategy of that entry's own table.
C28_EntriesKeepOwnTable ==
    \A c \in Slots :
        (calls[c].reqMethod = "auto" /\ Len(calls[c].attempts) >= 1) =>
            LET host == Hostname(calls[c].url)
                first == calls[c].attempts[1].s
            IN  /\ host \in {"facebook.com", "instagram.com", "linkedin.com",
                              "twitter.com", "x.com", "tiktok.com", "youtube.com",
                              "pinterest.com", "snapchat.com"} => first = "playwright"
                /\ host \in {"shopify.com", "wordpress.com", "wix.com",
                              "squarespace.com"} => first = "cloudscraper"
                /\ host \in {"amazon.com", "ebay.com", "mercadolivre.com",
                              "aliexpress.com", "booking.com", "airbnb.com"}
                       => first = "puppeteer"

\* what a reader of the pattern finds in each sampled text
PriceRead(text) ==
    CASE text = "De R$ 1.299,00 por R$ 199,90 hoje" -> "R$ 1.299,00"
      [] text = "R$ 199,90" -> "R$ 199,90"
      [] text = "\n  Apenas USD 49.99!  " -> "USD 49.99"
      [] text = "Total: $ 20" -> "$ 20"
      [] text = "R$ 1999,90" -> "R$ 199"
      [] text = "R$ -- ou $5 a vista" -> "$5"
      [] OTHER -> ""

\* C21: the price of an extracted record is the pattern match of the first
\* element, in selector order and then document order, whose text holds a
\* match; it is the matched substring only ("R$ 199,90"), and it is empty
\* when no element holds a match.
C21_PriceFirstMatch ==
    \A c \in Slots :
        (Ended(c) /\ calls[c].fetched.success /\ calls[c].ret.extractionMethod # "fallback")
            => LET all == calls[c].fetched.html.prices[1] \o calls[c].fetched.html.prices[2]
                   priced == {i \in 1..Len(all) : PriceRead(all[i]) # ""}
               IN  /\ priced = {} => calls[c].ret.price = ""
                   /\ \A i \in priced :
                          (\A j \in priced : i <= j) => calls[c].ret.price = PriceRead(all[i])

\* C21 witness: the first selector's first element holds no price, its
\* second one holds two, and the second selector matches another price
C21_Witness ==
    \E c \in Slots :
        /\ Ended(c)
        /\ calls[c].fetched.success
        /\ calls[c].fetched.html.prices
              = << <<"Consulte o vendedor", "De R$ 1.299,00 por R$ 199,90 hoje">>,
                   <<"R$ 199,90">> >>
        /\ calls[c].ret.price = "R$ 1.299,00"

\* the elements of a list field's selector groups, in scanning order
RECURSIVE Flatten(_)
Flatten(lists) == IF lists = <<>> THEN <<>> ELSE Head(lists) \o Flatten(Tail(lists))

\* list holds, in order, the first cap texts of all at the positions in
\* eligible whose trimmed text occurs at no earlier eligible position
Accumulates(list, all, eligible, cap) ==
    LET firsts == {i \in eligible :
                      \A j \in eligible : j < i => Trim(all[j]) # Trim(all[i])}
        rank(i) == Cardinality({j \in firsts : j <= i})
    IN  /\ Len(list) = (IF Cardinality(firsts) < cap THEN Cardinality(firsts) ELSE cap)
        /\ \A i \in firsts : rank(i) <= cap => list[rank(i)] = Trim(all[i])

WithinBand(all, lo, hi) ==
    {i \in 1..Len(all) : Len(Trim(all[i])) >= lo /\ Len(Trim(all[i])) <= hi}

InsideBand(all, lo, hi) ==
    {i \in 1..Len(all) : Len(Trim(all[i])) > lo /\ Len(Trim(all[i])) < hi}

\* C22 as stated: the benefits (testimonials) of an extracted record are the
\* first 8 (5) distinct trimmed texts of 10 to 200 (20 to 300) characters, in
\* selector-group order and then document order.
C22_BandInclusive ==
    \A c \in Slots :
        (Ended(c) /\ calls[c].fetched.success /\ calls[c].ret.extractionMethod # "fallback")
            => LET b == Flatten(calls[c].fetched.html.benefits)
                   t == Flatten(calls[c].fetched.html.testimonials)
               IN  /\ Accumulates(calls[c].ret.benefits, b, WithinBand(b, 10, 200), 8)
                   /\ Accumulates(calls[c].ret.testimonials, t, WithinBand(t, 20, 300), 5)

\* C22 amended: the benefits (testimonials) of an extracted record are the
\* first 8 (5) distinct trimmed texts longer than 10 and shorter than 200
\* (longer than 20 and shorter than 300) characters, in selector-group order
\* and then document order.
C22_BandExclusive ==
    \A c \in Slots :
        (Ended(c) /\ calls[c].fetched.success /\ calls[c].ret.extractionMethod # "fallback")
            => LET b == Flatten(calls[c].fetched.html.benefits)
                   t == Flatten(calls[c].fetched.html.testimonials)
               IN  /\ Accumulates(calls[c].ret.benefits, b, InsideBand(b, 10, 200), 8)
                   /\ Accumulates(calls[c].ret.testimonials, t, InsideBand(t, 20, 300), 5)

\* C22 witness: a page offers benefits of 10, 11, 199 and 200 characters,
\* repetitions and more than eight acceptable texts over its three selector
\* groups; the record keeps the texts of 11 and 199 characters, drops those
\* of 10 and 200, and stops at eight
C22_Witness ==
    \E c \in Slots :
        LET b == Flatten(calls[c].fetched.html.benefits)
        IN  /\ Ended(c)
            /\ calls[c].fetched.success
            /\ Len(b) = 16
            /\ calls[c].fetched.html.benefits[1] # <<>>
            /\ calls[c].fetched.html.benefits[2] # <<>>
            /\ Contains(b, Filler(10)) /\ Contains(b, Filler(200))
            /\ Len(calls[c].ret.benefits) = 8
            /\ Contains(calls[c].ret.benefits, Filler(11))
            /\ Contains(calls[c].ret.benefits, Filler(199))
            /\ ~Contains(calls[c].ret.benefits, Filler(10))
            /\ ~Contains(calls[c].ret.benefits, Filler(200))

\* C25: requests that differ in url or method never have the same cache key,
\* so the entry a call is served from was saved by a call with the same url
\* and method.
C25_KeyInjective ==
    /\ [](\A c \in Slots :
             (/\ calls[c].pc # "idle"
              /\ calls[c].after.kind # "none"
              /\ <<calls[c].after.url, calls[c].after.reqMethod>>
                     # <<calls[c].url, calls[c].reqMethod>>)
                => cacheKeyOf(calls[c].after.url, calls[c].after.reqMethod)
                      # calls[c].cacheKey)
    /\ [][\A c \in Slots :
            (BeginStep(c) /\ calls'[c].hit)
                => <<dataCache[calls'[c].cacheKey].by.url,
                     dataCache[calls'[c].cacheKey].by.reqMethod>>
                      = <<calls'[c].url, calls'[c].reqMethod>>
         ]_vars

\* C27: no call is served from the cache a record whose fetch was under way
\* when the cache was cleared.
C27_NothingOutlivesClear ==
    [][\A c \in Slots :
          (BeginStep(c) /\ calls'[c].hit)
              => ~dataCache[calls'[c].cacheKey].by.overtaken
      ]_vars

\* C30: once no generateResponse call is under way, the history stored for
\* the conversation of every completed call holds that call's user message
\* and its assistant reply.
C30_NoExchangeLost ==
    \A c \in Slots :
        (/\ \A d \in Slots : chats[d].pc \in {"idle", "done"}
         /\ chats[c].pc = "done")
            => LET history == IF chats[c].conversationId \in DOMAIN conversationCache
                              THEN conversationCache[chats[c].conversationId]
                              ELSE <<>>
               IN  /\ \E i \in 1..Len(history) :
                          /\ history[i].role = "user"
                          /\ history[i].by = chats[c].id
                          /\ history[i].message = chats[c].message
                   /\ \E i \in 1..Len(history) :
                          /\ history[i].role = "assistant"
                          /\ history[i].by = chats[c].id

\* C29: when every strategy invocation eventually returns or throws, every
\* extractData call eventually returns a record.
C29_EveryCallReturns ==
    \A c \in Slots :
        (calls[c].pc \notin {"idle", "done"})
            ~> (calls[c].pc = "done" /\ ~calls[c].raised /\ calls[c].ret # NoData)

\* C29 witness: a call has returned the default record after its primary
\* strategy and every strategy of the fallback list returned failure
C29_Witness ==
    \E c \in Slots :
        /\ Ended(c)
        /\ AllFourReturnedFailure(c)
        /\ Len(calls[c].attempts) >= 4
        /\ calls[c].ret = getDefaultData(calls[c].url)

====
